---- MODULE Spec2Model ----
(***************************************************************************)
(* Model of Sutherlandsequation.py: the temperature converters, the        *)
(* Sutherland viscosity formula, and the Calculate handler of the          *)
(* Streamlit page (conversion, single-point viscosity, display, curve      *)
(* sampling, plot).                                                        *)
(*                                                                         *)
(* Python's float and numpy's float64 are IEEE-754 binary64.  The model    *)
(* computes in binary64 itself: a finite double is sign, 53-bit            *)
(* significand and exponent, every operation rounds to nearest, ties to    *)
(* even.  TLC's integers are 32 bits wide, so significands are held as     *)
(* little-endian sequences of 15-bit limbs.                                *)
(***************************************************************************)
EXTENDS Integers, Sequences, FiniteSets, TLC

(***************************************************************************)
(* Natural numbers of any size: little-endian limbs, no high zero limb,    *)
(* zero is the empty sequence.                                             *)
(***************************************************************************)
LimbBits == 15
BASE == 32768

Pow2(i) == <<1, 2, 4, 8, 16, 32, 64, 128, 256, 512, 1024, 2048, 4096, 8192, 16384, 32768>>[i + 1]
Pow2L(i) == IF i <= LimbBits THEN Pow2(i) ELSE BASE * Pow2(i - LimbBits)

Min(a, b) == IF a <= b THEN a ELSE b
Max(a, b) == IF a >= b THEN a ELSE b

RECURSIVE BNorm(_)
BNorm(a) == IF a = <<>> THEN <<>>
            ELSE IF a[Len(a)] = 0 THEN BNorm(SubSeq(a, 1, Len(a) - 1))
            ELSE a

BFromInt(n) == IF n = 0 THEN <<>>
               ELSE IF n < BASE THEN <<n>>
               ELSE IF n < BASE * BASE THEN <<n % BASE, n \div BASE>>
               ELSE <<n % BASE, (n \div BASE) % BASE, n \div (BASE * BASE)>>

BToInt(a) == IF a = <<>> THEN 0
             ELSE IF Len(a) = 1 THEN a[1]
             ELSE a[1] + BASE * a[2]

Limb(a, i) == IF i <= Len(a) THEN a[i] ELSE 0

\* -1, 0, 1 as a < b, a = b, a > b
RECURSIVE BCmpFrom(_, _, _)
BCmpFrom(a, b, i) == IF i = 0 THEN 0
                     ELSE IF a[i] < b[i] THEN -1
                     ELSE IF a[i] > b[i] THEN 1
                     ELSE BCmpFrom(a, b, i - 1)

BCmp(a, b) == IF Len(a) < Len(b) THEN -1
              ELSE IF Len(a) > Len(b) THEN 1
              ELSE BCmpFrom(a, b, Len(a))

\* limb i and up of a + b + c, c the carry into limb i
RECURSIVE BAddC(_, _, _, _)
BAddC(a, b, i, c) == IF i > Len(a) /\ i > Len(b)
                     THEN (IF c = 0 THEN <<>> ELSE <<c>>)
                     ELSE <<(Limb(a, i) + Limb(b, i) + c) % BASE>>
                          \o BAddC(a, b, i + 1, (Limb(a, i) + Limb(b, i) + c) \div BASE)

BAdd(a, b) == BAddC(a, b, 1, 0)

\* a - b for a >= b; c is the borrow out of the limb below
RECURSIVE BSubC(_, _, _, _)
BSubC(a, b, i, c) == IF i > Len(a) THEN <<>>
                     ELSE IF a[i] - Limb(b, i) - c < 0
                          THEN <<a[i] - Limb(b, i) - c + BASE>> \o BSubC(a, b, i + 1, 1)
                          ELSE <<a[i] - Limb(b, i) - c>> \o BSubC(a, b, i + 1, 0)

BSub(a, b) == BNorm(BSubC(a, b, 1, 0))

\* a * k for 0 <= k <= BASE
RECURSIVE BMulSmallC(_, _, _, _)
BMulSmallC(a, k, i, c) == IF i > Len(a) THEN (IF c = 0 THEN <<>> ELSE <<c>>)
                          ELSE <<(a[i] * k + c) % BASE>>
                               \o BMulSmallC(a, k, i + 1, (a[i] * k + c) \div BASE)

BMulSmall(a, k) == IF k = 0 \/ a = <<>> THEN <<>>
                   ELSE IF k = BASE THEN <<0>> \o a
                   ELSE BMulSmallC(a, k, 1, 0)

\* a * BASE
BUp(a) == IF a = <<>> THEN <<>> ELSE <<0>> \o a

\* a times limb j and up of b
RECURSIVE BMulFrom(_, _, _)
BMulFrom(a, b, j) == IF j > Len(b) THEN <<>>
                     ELSE BAdd(BMulSmall(a, b[j]), BUp(BMulFrom(a, b, j + 1)))

BMul(a, b) == IF a = <<>> \/ b = <<>> THEN <<>> ELSE BMulFrom(a, b, 1)

\* a \div k for 1 <= k < BASE, from the high limb down; r is the running remainder
RECURSIVE BDivSmallC(_, _, _, _)
BDivSmallC(a, k, i, r) == IF i = 0 THEN <<>>
                          ELSE BDivSmallC(a, k, i - 1, (r * BASE + a[i]) % k)
                               \o <<(r * BASE + a[i]) \div k>>

BDivSmall(a, k) == BNorm(BDivSmallC(a, k, Len(a), 0))

Zeros(n) == [i \in 1..n |-> 0]

\* a * 2^k
BShl(a, k) == IF a = <<>> THEN <<>>
              ELSE Zeros(k \div LimbBits) \o BMulSmall(a, Pow2(k % LimbBits))

\* a \div 2^k
BShr(a, k) == IF k \div LimbBits >= Len(a) THEN <<>>
              ELSE BDivSmall(SubSeq(a, (k \div LimbBits) + 1, Len(a)), Pow2(k % LimbBits))

\* the number of bits of 0 <= n < 2^30
IntBits(n) == CHOOSE i \in 0..30 : (i = 0 \/ n >= Pow2L(i - 1)) /\ n < Pow2L(i)

\* the number of bits of a (0 for zero)
BBits(a) == IF a = <<>> THEN 0 ELSE (Len(a) - 1) * LimbBits + IntBits(a[Len(a)])

BOdd(a) == a # <<>> /\ a[1] % 2 = 1

\* One quotient limb: the largest q with q * d <= r, for r < d * BASE and d's
\* high limb at least BASE / 2.  The estimate from the high limbs is at most 2
\* too large.
QuotEst(r, d) == Min((Limb(r, Len(d) + 1) * BASE + Limb(r, Len(d))) \div d[Len(d)], BASE - 1)

QuotFix(r, d, est) == IF BCmp(BMulSmall(d, est), r) <= 0 THEN est
                      ELSE IF BCmp(BMulSmall(d, est - 1), r) <= 0 THEN est - 1
                      ELSE est - 2

QuotLimb(r, d) == QuotFix(r, d, QuotEst(r, d))

\* Long division of a by d (normalised), limb i of a down to 1, remainder r so
\* far: <<quotient, remainder>>
RECURSIVE BDivLong(_, _, _, _)
BDivPut(rest, q) == <<rest[1] \o <<q>>, rest[2]>>

BDivSub(a, d, i, x, q) == BDivPut(BDivLong(a, d, i - 1, BSub(x, BMulSmall(d, q))), q)

BDivStep(a, d, i, x) == BDivSub(a, d, i, x, QuotLimb(x, d))

BDivLong(a, d, i, r) == IF i = 0 THEN <<<<>>, r>>
                        ELSE BDivStep(a, d, i, BNorm(<<a[i]>> \o r))

\* the shift that brings d's high limb to at least BASE / 2
NormShift(d) == LimbBits - IntBits(d[Len(d)])

BDivOut(res, sh) == <<BNorm(res[1]), BShr(res[2], sh)>>

\* the high Len(d) - 1 limbs of a are below d and start as the remainder
BDivNorm(a, d, sh) ==
    BDivOut(BDivLong(a, d, Len(a) - Len(d) + 1,
                     BNorm(SubSeq(a, Len(a) - Len(d) + 2, Len(a)))), sh)

\* <<a \div d, a % d>> for d # 0
BDivMod(a, d) == IF BCmp(a, d) < 0 THEN <<<<>>, a>>
                 ELSE BDivNorm(BShl(a, NormShift(d)), BShl(d, NormShift(d)), NormShift(d))

RECURSIVE IntSqrtFrom(_, _)
IntSqrtFrom(n, x) == IF (x + n \div x) \div 2 >= x THEN x
                     ELSE IntSqrtFrom(n, (x + n \div x) \div 2)

\* floor of the square root of an integer
IntSqrt(n) == IF n < 2 THEN n ELSE IntSqrtFrom(n, n \div 2 + 1)

\* Newton's iteration from above: x, or on from the next iterate y
RECURSIVE BSqrtFrom(_, _)
BSqrtNext(n, x, y) == IF BCmp(y, x) >= 0 THEN x ELSE BSqrtFrom(n, y)

BSqrtFrom(n, x) == BSqrtNext(n, x, BShr(BAdd(x, BDivMod(n, x)[1]), 1))

\* half the number of bits of n below its high 29 or 30
RootShift(n) == (BBits(n) - 29) \div 2

\* floor of the square root, started from the root of the high 30 bits
BSqrt(n) == IF BBits(n) <= 30 THEN BFromInt(IntSqrt(BToInt(n)))
            ELSE BSqrtFrom(n, BShl(BFromInt(IntSqrt(BToInt(BShr(n, 2 * RootShift(n)))) + 1),
                                   RootShift(n)))

(***************************************************************************)
(* binary64.  A number is a record: k is "fin" (the value is                *)
(* (-1)^s * m * 2^e, with m of exactly 53 bits, or of fewer bits and        *)
(* e = EMin for a subnormal, or m = 0 and e = 0 for a zero), "inf", "nan",  *)
(* "complex" (a Python complex, whose value the model does not track), or   *)
(* the name of the exception an expression raised instead of returning.     *)
(* t is the Python type carrying the value: "float", or "float64" for a     *)
(* numpy scalar, whose operators signal with a warning and a special value  *)
(* where Python's float operators raise.                                    *)
(***************************************************************************)
Prec == 53
EMin == -1074
EMax == 971

Num(k, s, m, e, t) == [k |-> k, s |-> s, m |-> m, e |-> e, t |-> t]
Fin(s, m, e, t) == Num("fin", s, m, e, t)
Zero(s, t) == Num("fin", s, <<>>, 0, t)
Inf(s, t) == Num("inf", s, <<>>, 0, t)
NaN(t) == Num("nan", 0, <<>>, 0, t)
Complex == Num("complex", 0, <<>>, 0, "complex")
Raise(exc) == Num(exc, 0, <<>>, 0, "exception")

Exceptions == {"ValueError", "ZeroDivisionError", "OverflowError"}
Raised(x) == x.k \in Exceptions
IsFin(x) == x.k = "fin"
IsZero(x) == x.k = "fin" /\ x.m = <<>>
IsNumber(x) == x.k \in {"fin", "inf", "nan"}

\* the type of the result of a binary operator: numpy's scalar wins
ResT(a, b) == IF a.t = "float64" \/ b.t = "float64" THEN "float64" ELSE "float"

\* a rounded significand and its exponent as a number
Pack(s, m, e, t) == IF e > EMax THEN Inf(s, t)
                    ELSE IF m = <<>> THEN Zero(s, t)
                    ELSE Fin(s, m, e, t)

\* the rounded significand q1 may have reached 2^Prec
RoundCarry(s, q1, e, t) == IF BBits(q1) > Prec THEN Pack(s, BShr(q1, 1), e + 1, t)
                           ELSE Pack(s, q1, e, t)

\* q is the significand cut at exponent e, half the first bit cut off, low
\* whether anything lies below that bit: to nearest, ties to even
RoundUp(s, q, half, low, e, t) ==
    RoundCarry(s, IF half /\ (low \/ BOdd(q)) THEN BAdd(q, <<1>>) ELSE q, e, t)

\* hq is M cut one bit below exponent e
RoundCut(s, M, E, sticky, t, e, hq) ==
    RoundUp(s, BShr(hq, 1), BOdd(hq), sticky \/ BShl(hq, e - E - 1) # M, e, t)

\* e is the exponent of the result's last place
RoundAt(s, M, E, sticky, t, e) ==
    IF e <= E THEN Pack(s, BShl(M, E - e), e, t)
    ELSE RoundCut(s, M, E, sticky, t, e, BShr(M, e - E - 1))

\* (-1)^s * M * 2^E, made inexact from below by sticky, rounded to nearest,
\* ties to even
RoundFin(s, M, E, sticky, t) ==
    IF M = <<>> THEN Zero(s, t)
    ELSE RoundAt(s, M, E, sticky, t, Max(E + BBits(M) - Prec, EMin))

Xor(a, b) == IF a = b THEN 0 ELSE 1

\* the order of two finite numbers' magnitudes: -1, 0, 1
MagCmp(a, b) == IF a.m = <<>> \/ b.m = <<>> THEN BCmp(a.m, b.m)
                ELSE IF a.e + BBits(a.m) < b.e + BBits(b.m) THEN -1
                ELSE IF a.e + BBits(a.m) > b.e + BBits(b.m) THEN 1
                ELSE BCmp(BShl(a.m, Max(a.e - b.e, 0)), BShl(b.m, Max(b.e - a.e, 0)))

\* the sign and the magnitude of (-1)^sa * A + (-1)^sb * B
SumSign(sa, A, sb, B) == IF sa = sb THEN sa
                         ELSE IF BCmp(A, B) > 0 THEN sa
                         ELSE IF BCmp(A, B) < 0 THEN sb
                         ELSE 0

SumMag(sa, A, sb, B) == IF sa = sb THEN BAdd(A, B)
                        ELSE IF BCmp(A, B) >= 0 THEN BSub(A, B)
                        ELSE BSub(B, A)

AddMag(sa, A, sb, B, e, sticky, t) ==
    RoundFin(SumSign(sa, A, sb, B), SumMag(sa, A, sb, B), e, sticky, t)

\* hi + lo for finite nonzero hi and lo, hi.e >= lo.e.  A lo more than 120
\* binary places down is far below half an ulp of hi and only makes the sum
\* inexact.
AddOrd(hi, lo, far, t) ==
    AddMag(hi.s, BShl(hi.m, IF far THEN 3 ELSE hi.e - lo.e),
           lo.s, IF ~far THEN lo.m ELSE IF hi.s = lo.s THEN <<>> ELSE <<1>>,
           IF far THEN hi.e - 3 ELSE lo.e, far, t)

\* a + b for finite a and b
AddFin(a, b, t) ==
    IF a.m = <<>> /\ b.m = <<>> THEN Zero(IF a.s = 1 /\ b.s = 1 THEN 1 ELSE 0, t)
    ELSE IF a.m = <<>> THEN Fin(b.s, b.m, b.e, t)
    ELSE IF b.m = <<>> THEN Fin(a.s, a.m, a.e, t)
    ELSE AddOrd(IF a.e >= b.e THEN a ELSE b, IF a.e >= b.e THEN b ELSE a,
                (IF a.e >= b.e THEN a.e - b.e ELSE b.e - a.e) > 120, t)

\* IEEE addition
IeeeAdd(a, b, t) ==
    IF a.k = "nan" \/ b.k = "nan" THEN NaN(t)
    ELSE IF a.k = "inf" /\ b.k = "inf" THEN (IF a.s = b.s THEN Inf(a.s, t) ELSE NaN(t))
    ELSE IF a.k = "inf" THEN Inf(a.s, t)
    ELSE IF b.k = "inf" THEN Inf(b.s, t)
    ELSE AddFin(a, b, t)

\* IEEE multiplication
IeeeMul(a, b, t) ==
    IF a.k = "nan" \/ b.k = "nan" THEN NaN(t)
    ELSE IF a.k = "inf" \/ b.k = "inf"
         THEN (IF IsZero(a) \/ IsZero(b) THEN NaN(t) ELSE Inf(Xor(a.s, b.s), t))
    ELSE IF a.m = <<>> \/ b.m = <<>> THEN Zero(Xor(a.s, b.s), t)
    ELSE RoundFin(Xor(a.s, b.s), BMul(a.m, b.m), a.e + b.e, FALSE, t)

\* the shift of the dividend that gives a quotient of at least 55 bits
DivShift(a, b) == Max(0, 56 + BBits(b.m) - BBits(a.m))

\* the quotient is inexact when the division leaves a remainder
DivRound(s, qr, e, t) == RoundFin(s, qr[1], e, qr[2] # <<>>, t)

\* a / b for finite a and finite nonzero b
DivFin(a, b, t) ==
    IF a.m = <<>> THEN Zero(Xor(a.s, b.s), t)
    ELSE DivRound(Xor(a.s, b.s), BDivMod(BShl(a.m, DivShift(a, b)), b.m),
                  a.e - b.e - DivShift(a, b), t)

\* IEEE division, a zero divisor included
IeeeDiv(a, b, t) ==
    IF a.k = "nan" \/ b.k = "nan" THEN NaN(t)
    ELSE IF a.k = "inf" THEN (IF b.k = "inf" THEN NaN(t) ELSE Inf(Xor(a.s, b.s), t))
    ELSE IF b.k = "inf" THEN Zero(Xor(a.s, b.s), t)
    ELSE IF b.m = <<>> THEN (IF a.m = <<>> THEN NaN(t) ELSE Inf(Xor(a.s, b.s), t))
    ELSE DivFin(a, b, t)

\* x ^ 1.5 for finite x > 0, correctly rounded (the C library's pow, which
\* Python and numpy call, is within one unit in the last place of this and
\* equal to it at exact powers such as 1 ^ 1.5): the square root of x^3, from
\* the integer root r of n = m^3 * 2^(3e) brought to an even exponent 2h and
\* to 111 or 112 bits (up binary places up or dn down, a root of 56 bits); the
\* root is inexact when its square, scaled back, is not n
PowUp(b) == IF b < 111 THEN (112 - b) \div 2 ELSE 0
PowDn(b) == IF b > 112 THEN (b - 111) \div 2 ELSE 0

PowRound(n, h, t, up, dn, r) ==
    RoundFin(0, r, h + dn - up, BShl(BMul(r, r), 2 * dn) # BShl(n, 2 * up), t)

PowRoot(n, h, t, up, dn) ==
    PowRound(n, h, t, up, dn, BSqrt(IF up > 0 THEN BShl(n, 2 * up) ELSE BShr(n, 2 * dn)))

PowScale(n, h, t, b) == PowRoot(n, h, t, PowUp(b), PowDn(b))

PowCube(n, h, t) == PowScale(n, h, t, BBits(n))

Pow15Fin(x, t) ==
    PowCube(BShl(BMul(BMul(x.m, x.m), x.m), (3 * x.e) % 2),
            (3 * x.e - ((3 * x.e) % 2)) \div 2, t)

(***************************************************************************)
(* Python's operators on these numbers.  An operand that is a raised       *)
(* exception propagates, the left operand's first: Python evaluates left   *)
(* to right and the first exception ends the expression.                   *)
(***************************************************************************)
Neg(a) == IF IsNumber(a) /\ a.k # "nan" THEN [a EXCEPT !.s = 1 - a.s] ELSE a

Add(a, b) == IF Raised(a) THEN a
             ELSE IF Raised(b) THEN b
             ELSE IF a.k = "complex" \/ b.k = "complex" THEN Complex
             ELSE IeeeAdd(a, b, ResT(a, b))

Sub(a, b) == Add(a, Neg(b))

Mul(a, b) == IF Raised(a) THEN a
             ELSE IF Raised(b) THEN b
             ELSE IF a.k = "complex" \/ b.k = "complex" THEN Complex
             ELSE IeeeMul(a, b, ResT(a, b))

\* a / b: float and complex raise ZeroDivisionError on a zero divisor, a numpy
\* scalar returns inf or nan
Div(a, b) == IF Raised(a) THEN a
             ELSE IF Raised(b) THEN b
             ELSE IF IsZero(b) /\ ResT(a, b) # "float64" THEN Raise("ZeroDivisionError")
             ELSE IF a.k = "complex" \/ b.k = "complex" THEN Complex
             ELSE IeeeDiv(a, b, ResT(a, b))

\* a ** 1.5: a negative float gives a complex and an overflow raises
\* OverflowError (also that of the complex power); a numpy scalar gives nan and
\* inf
PowCheck(a, r) == IF r.k = "inf" /\ a.t # "float64" THEN Raise("OverflowError")
                  ELSE IF a.s = 1 THEN Complex
                  ELSE r

Pow15(a) == IF Raised(a) \/ a.k \in {"complex", "nan"} THEN a
            ELSE IF a.k = "inf" THEN Inf(0, a.t)
            ELSE IF a.m = <<>> THEN Zero(0, a.t)
            ELSE IF a.s = 1 /\ a.t = "float64" THEN NaN(a.t)
            ELSE PowCheck(a, Pow15Fin(a, a.t))

\* ==, <, <= on numbers (false when either is nan; the zeros are equal)
NumEq(a, b) == /\ a.k \in {"fin", "inf"} /\ b.k \in {"fin", "inf"}
               /\ a.k = b.k /\ a.m = b.m /\ a.e = b.e
               /\ (a.s = b.s \/ IsZero(a))

NumLt(a, b) == /\ a.k \in {"fin", "inf"} /\ b.k \in {"fin", "inf"}
               /\ ~NumEq(a, b)
               /\ IF a.s # b.s THEN a.s = 1
                  ELSE IF a.k = "inf" \/ b.k = "inf" THEN (a.k = "inf") = (a.s = 1)
                  ELSE IF a.s = 0 THEN MagCmp(a, b) < 0
                  ELSE MagCmp(a, b) > 0

NumLe(a, b) == NumLt(a, b) \/ NumEq(a, b)

\* an int literal of the source as a float operand (exact)
PyInt(n) == RoundFin(IF n < 0 THEN 1 ELSE 0, BFromInt(IF n < 0 THEN -n ELSE n), 0, FALSE, "float")

RECURSIVE BPow10(_)
BPow10(k) == IF k = 0 THEN <<1>> ELSE BMulSmall(BPow10(k - 1), 10)

\* the float literal n / 10^k (n an integer, 0 <= k <= 22): the double nearest
\* to the decimal, as Python's parser gives it
Dec(n, k) == DivFin(PyInt(n), RoundFin(0, BPow10(k), 0, FALSE, "float"), "float")

(***************************************************************************)
(* The Sutherland constants (lines 21 to 28)                               *)
(***************************************************************************)
T_REF_SI == Dec(3230, 1)
S_SI == Dec(1100, 1)
V_REF_SI == Dec(1716, 8)

T_REF_USC == Dec(51867, 2)
S_USC == Dec(19872, 2)
V_REF_USC == Dec(3737, 10)

(***************************************************************************)
(* The temperature converters (lines 32 to 55)                             *)
(***************************************************************************)
\* to_kelvin with the whole number 273 for the offset of the Celsius scale
to_kelvin_whole(value, unit) ==
    IF unit = "C" THEN Add(value, PyInt(273))
    ELSE IF unit = "F" THEN Add(Div(Mul(Sub(value, PyInt(32)), PyInt(5)), PyInt(9)), PyInt(273))
    ELSE IF unit = "K" THEN value
    ELSE IF unit = "R" THEN Div(Mul(value, PyInt(5)), PyInt(9))
    ELSE Raise("ValueError")

to_kelvin(value, unit) ==
    IF unit = "C" THEN Add(value, Dec(27315, 2))
    ELSE IF unit = "F" THEN Add(Div(Mul(Sub(value, PyInt(32)), PyInt(5)), PyInt(9)), Dec(27315, 2))
    ELSE IF unit = "K" THEN value
    ELSE IF unit = "R" THEN Div(Mul(value, PyInt(5)), PyInt(9))
    ELSE Raise("ValueError")

\* to_rankine taking any other symbol for Rankine
to_rankine_lenient(value, unit) ==
    IF unit = "C" THEN Add(Div(Mul(value, PyInt(9)), PyInt(5)), Dec(49167, 2))
    ELSE IF unit = "F" THEN Add(value, Dec(45967, 2))
    ELSE IF unit = "K" THEN Div(Mul(value, PyInt(9)), PyInt(5))
    ELSE value

\* to_rankine with the offset of the Fahrenheit scale for Celsius too
to_rankine_offset(value, unit) ==
    IF unit = "C" THEN Add(Div(Mul(value, PyInt(9)), PyInt(5)), Dec(45967, 2))
    ELSE IF unit = "F" THEN Add(value, Dec(45967, 2))
    ELSE IF unit = "K" THEN Div(Mul(value, PyInt(9)), PyInt(5))
    ELSE IF unit = "R" THEN value
    ELSE Raise("ValueError")

to_rankine(value, unit) ==
    IF unit = "C" THEN Add(Div(Mul(value, PyInt(9)), PyInt(5)), Dec(49167, 2))
    ELSE IF unit = "F" THEN Add(value, Dec(45967, 2))
    ELSE IF unit = "K" THEN Div(Mul(value, PyInt(9)), PyInt(5))
    ELSE IF unit = "R" THEN value
    ELSE Raise("ValueError")

(***************************************************************************)
(* Sutherland's formula (lines 59 to 60):                                  *)
(*   v_ref * (temp / t_ref) ** 1.5 * (t_ref + s) / (temp + s)              *)
(***************************************************************************)
\* the formula dividing by temp in place of temp + s
sutherland_viscosity_bare(temp, t_ref, s, v_ref) ==
    Div(Mul(Mul(v_ref, Pow15(Div(temp, t_ref))), Add(t_ref, s)), temp)

\* the formula without its power term
sutherland_viscosity_flat(temp, t_ref, s, v_ref) ==
    Div(Mul(v_ref, Add(t_ref, s)), Add(temp, s))

sutherland_viscosity(temp, t_ref, s, v_ref) ==
    Div(Mul(Mul(v_ref, Pow15(Div(temp, t_ref))), Add(t_ref, s)), Add(temp, s))

(***************************************************************************)
(* np.linspace(start, stop, num) with num > 1 (line 100): arange(0, num)   *)
(* times the step (delta / (num - 1)), plus start, with the last element   *)
(* set to stop; when the step rounds to zero, arange / (num - 1) times     *)
(* delta instead.  The elements are numpy float64 scalars.                 *)
(***************************************************************************)
AsFloat64(x) == IF IsNumber(x) THEN [x EXCEPT !.t = "float64"] ELSE x

LinspaceFill(start, stop, num, div, delta, step) ==
    [i \in 1..num |->
        IF i = num THEN stop
        ELSE IF IsZero(step) THEN Add(Mul(Div(AsFloat64(PyInt(i - 1)), div), delta), start)
        ELSE Add(Mul(AsFloat64(PyInt(i - 1)), step), start)]

LinspaceStep(start, stop, num, div, delta) ==
    LinspaceFill(start, stop, num, div, delta, Div(delta, div))

LinspaceDelta(start, stop, num, div) ==
    LinspaceStep(start, stop, num, div, Sub(stop, start))

linspace(start, stop, num) ==
    LinspaceDelta(AsFloat64(start), AsFloat64(stop), num, AsFloat64(PyInt(num - 1)))

(***************************************************************************)
(* The formats of the displayed numbers (lines 93 to 97): ".2f" and ".6e"  *)
(* round the exact binary value half-to-even to the decimal digits shown.  *)
(***************************************************************************)
RECURSIVE Digits(_)
Digits(a) == IF a = <<>> THEN <<>>
             ELSE Append(Digits(BDivSmall(a, 10)),
                         BToInt(BSub(a, BMulSmall(BDivSmall(a, 10), 10))))

RECURSIVE PadDigits(_, _)
PadDigits(d, n) == IF Len(d) >= n THEN d ELSE PadDigits(<<0>> \o d, n)

\* M * 2^E as a ratio of two naturals, times 10^p
Ratio(M, E, p) == [num |-> BMul(IF E >= 0 THEN BShl(M, E) ELSE M, BPow10(Max(p, 0))),
                   den |-> BMul(IF E < 0 THEN BShl(<<1>>, -E) ELSE <<1>>, BPow10(Max(-p, 0)))]

\* the quotient qr[1] rounded up past half the divisor, ties to even
RoundQuot(qr, den) ==
    IF BCmp(BShl(qr[2], 1), den) > 0 \/ (BCmp(BShl(qr[2], 1), den) = 0 /\ BOdd(qr[1]))
    THEN BAdd(qr[1], <<1>>) ELSE qr[1]

\* num / den rounded to the nearest natural, ties to even
RoundRatio(r) == RoundQuot(BDivMod(r.num, r.den), r.den)

Special(x) == [special |-> IF x.k \in {"complex", "nan"} THEN x.k
                             ELSE IF x.s = 1 THEN "-inf" ELSE "inf"]

\* the digits of a number of hundredths
Fixed2(neg, d) == [neg |-> neg, whole |-> SubSeq(d, 1, Len(d) - 2),
                   frac |-> SubSeq(d, Len(d) - 1, Len(d))]

\* f"{x:.2f}": the sign, the digits of the whole part and the two decimals
Format2f(x) ==
    IF ~IsFin(x) THEN Special(x)
    ELSE Fixed2(x.s = 1, PadDigits(Digits(RoundRatio(Ratio(x.m, x.e, 2))), 3))

\* whether 10^e <= M * 2^E < 10^(e + 1), r being M * 2^E / 10^e
InDecade(r) == BCmp(r.num, r.den) >= 0 /\ BCmp(r.num, BMulSmall(r.den, 10)) < 0

\* the decimal exponent of a positive finite number, near g = log10(2) times
\* its binary exponent
Exp10Near(M, E, g) == CHOOSE e \in (g - 1)..(g + 1) : InDecade(Ratio(M, E, -e))

Exp10(M, E) == Exp10Near(M, E, ((BBits(M) + E - 1) * 30103) \div 100000)

\* seven digits, or eight when the rounding carried into the next decade
Sci6(neg, d, e) == [neg |-> neg, lead |-> d[1], frac |-> SubSeq(d, 2, 7),
                    exp |-> IF Len(d) = 8 THEN e + 1 ELSE e]

Format6eAt(x, e) == Sci6(x.s = 1, Digits(RoundRatio(Ratio(x.m, x.e, 6 - e))), e)

\* f"{x:.6e}": the sign, the leading digit, six decimals and the exponent
Format6e(x) ==
    IF ~IsFin(x) THEN Special(x)
    ELSE IF x.m = <<>> THEN [neg |-> x.s = 1, lead |-> 0, frac |-> <<0, 0, 0, 0, 0, 0>>, exp |-> 0]
    ELSE Format6eAt(x, Exp10(x.m, x.e))

(***************************************************************************)
(* The application.  Streamlit runs the script from the top at every       *)
(* interaction; the widgets return the user's current choices and the      *)
(* button returns True in the run its click starts.  A widget is           *)
(* identified by its label, so a widget whose label changes (the unit      *)
(* selector's holds the unit system, the temperature field's the unit)     *)
(* starts again from its default.  An uncaught exception ends the run and  *)
(* is shown in place of the rest of the page.                              *)
(***************************************************************************)
VARIABLES unit_system, temp_unit, temp_input,      \* the widgets' values
          triples,                                 \* the constants of lines 21 to 28
          pc,                                      \* where the running script is
          T, base_temp, viscosity, unit_label, ref, temps, mu,
          page,                                    \* the elements shown, in order
          value, unit, kelvin, rankine,            \* a call of each converter
          consts, temp, visc                       \* calls of sutherland_viscosity

appVars == <<unit_system, temp_unit, temp_input, triples, pc, T, base_temp,
             viscosity, unit_label, ref, temps, mu, page>>
convVars == <<value, unit, kelvin, rankine>>
viscVars == <<consts, temp, visc>>
vars == <<appVars, convVars, viscVars>>

\* a name that is not bound
Unset == [k |-> "unset"]

UnitSystems == {"SI", "USC"}
Units == {"C", "F", "K", "R"}
NumPoints == 100

\* the temperatures entered: the default, the sea-level reference in Celsius,
\* the freezing point in Fahrenheit, the USC reference temperature, minus the
\* SI Sutherland constant, 1.7e308 (close to the largest float) and the
\* sea-level reference in Kelvin
NumTemperatures == 6
Temperatures == <<Dec(0, 0), Dec(150, 1), Dec(320, 1), Dec(51867, 2), Dec(-1100, 1),
                  Fin(0, <<15222, 24814, 2884, 242>>, 971, "float"),
                  Dec(28815, 2)>>
InputValues == {Temperatures[i] : i \in 1..Min(NumTemperatures, Len(Temperatures))}

Triples == [SI |-> <<T_REF_SI, S_SI, V_REF_SI>>, USC |-> <<T_REF_USC, S_USC, V_REF_USC>>]

\* the page's fixed elements: lines 6 to 13 and 112 to 119
Header == <<[kind |-> "title"], [kind |-> "markdown", text |-> "description"]>>
Footer == <<[kind |-> "markdown", text |-> "---"], [kind |-> "markdown", text |-> "How it works"]>>

\* st.selectbox's index (line 68) and st.number_input's value (line 73)
DefaultUnit(system) == IF system = "SI" THEN "C" ELSE "R"
DefaultValue == Dec(0, 0)

\* the branch of lines 79 to 90: the converter, the label and the constants
\* the branch converting to Kelvin in both unit systems
ConvertToKelvin(system, v, u) == to_kelvin(v, u)

Convert(system, v, u) == IF system = "SI" THEN to_kelvin(v, u) ELSE to_rankine(v, u)
Label(system) == IF system = "SI" THEN "K" ELSE "R"
Reference(system) == IF system = "SI" THEN triples.SI ELSE triples.USC

\* a run of the script in which the button is not pressed
Rerun(system, u, v) ==
    /\ unit_system' = system /\ temp_unit' = u /\ temp_input' = v
    /\ pc' = "idle"
    /\ T' = Unset /\ base_temp' = Unset /\ viscosity' = Unset
    /\ unit_label' = Unset /\ ref' = Unset /\ temps' = Unset /\ mu' = Unset
    /\ page' = Header \o Footer
    /\ UNCHANGED <<triples, convVars, viscVars>>

\* line 63
SelectUnitSystem(system) ==
    /\ pc = "idle" /\ system # unit_system
    /\ Rerun(system, DefaultUnit(system),
             IF DefaultUnit(system) = temp_unit THEN temp_input ELSE DefaultValue)

\* lines 66 to 69
SelectTempUnit(u) ==
    /\ pc = "idle" /\ u # temp_unit
    /\ Rerun(unit_system, u, DefaultValue)

\* lines 72 to 74
EnterTemperature(v) ==
    /\ pc = "idle" /\ v # temp_input
    /\ Rerun(unit_system, temp_unit, v)

\* lines 79 to 90 with t, b and v the values of T, base_temp and viscosity, or
\* the exception raised in their place, and exc the first of these exceptions
\* (v when there is none): the first exception ends the run
\* lines 79 to 90 writing the converted temperature as soon as it is known
ComputedEarly(t, b, r, v, exc) ==
    /\ T' = IF Raised(t) THEN Unset ELSE t
    /\ base_temp' = IF Raised(t) \/ Raised(b) THEN Unset ELSE b
    /\ viscosity' = IF Raised(exc) THEN Unset ELSE v
    /\ unit_label' = IF Raised(exc) THEN Unset ELSE Label(unit_system)
    /\ ref' = IF Raised(exc) THEN Unset ELSE r
    /\ pc' = IF Raised(exc) THEN "idle" ELSE "computed"
    /\ page' = Header
               \o (IF Raised(t) THEN <<>>
                   ELSE <<[kind |-> "write", what |-> "Converted Temperature",
                           number |-> Format2f(t), unit |-> Label(unit_system)]>>)
               \o (IF Raised(exc) THEN <<[kind |-> "exception", type |-> exc.k]>> ELSE <<>>)

\* lines 79 to 90 on a page that keeps what the run before has shown
ComputedAppended(t, b, r, v, exc) ==
    /\ T' = IF Raised(t) THEN Unset ELSE t
    /\ base_temp' = IF Raised(t) \/ Raised(b) THEN Unset ELSE b
    /\ viscosity' = IF Raised(exc) THEN Unset ELSE v
    /\ unit_label' = IF Raised(exc) THEN Unset ELSE Label(unit_system)
    /\ ref' = IF Raised(exc) THEN Unset ELSE r
    /\ pc' = IF Raised(exc) THEN "idle" ELSE "computed"
    /\ page' = IF Raised(exc) THEN page \o <<[kind |-> "exception", type |-> exc.k]>>
               ELSE page

Computed(t, b, r, v, exc) ==
    /\ T' = IF Raised(t) THEN Unset ELSE t
    /\ base_temp' = IF Raised(t) \/ Raised(b) THEN Unset ELSE b
    /\ viscosity' = IF Raised(exc) THEN Unset ELSE v
    /\ unit_label' = IF Raised(exc) THEN Unset ELSE Label(unit_system)
    /\ ref' = IF Raised(exc) THEN Unset ELSE r
    /\ pc' = IF Raised(exc) THEN "idle" ELSE "computed"
    /\ page' = IF Raised(exc) THEN Header \o <<[kind |-> "exception", type |-> exc.k]>>
               ELSE Header

Compute(t, b, r, v) ==
    Computed(t, b, r, v, IF Raised(t) THEN t ELSE IF Raised(b) THEN b ELSE v)

Evaluate(t, b, r) == Compute(t, b, r, sutherland_viscosity(t, r[1], r[2], r[3]))

\* the click and lines 77 to 90
Calculate ==
    /\ pc = "idle"
    /\ Evaluate(Convert(unit_system, temp_input, temp_unit),
                Convert(unit_system, Dec(150, 1), "C"),
                Reference(unit_system))
    /\ temps' = Unset /\ mu' = Unset
    /\ UNCHANGED <<unit_system, temp_unit, temp_input, triples, convVars, viscVars>>

\* lines 93 to 97
WriteResults ==
    /\ pc = "computed"
    /\ page' = page \o
         <<[kind |-> "write", what |-> "Converted Temperature",
            number |-> Format2f(T), unit |-> unit_label],
           [kind |-> "write",
            what |-> IF unit_system = "SI" THEN "Dynamic Viscosity (SI)"
                     ELSE "Dynamic Viscosity (USC)",
            number |-> Format6e(viscosity),
            unit |-> IF unit_system = "SI" THEN "kg/(m s)" ELSE "slug/(ft s)"]>>
    /\ pc' = "written"
    /\ UNCHANGED <<unit_system, temp_unit, temp_input, triples, T, base_temp, viscosity,
                   unit_label, ref, temps, mu, convVars, viscVars>>

\* a Python list of the elements of an array or of a comprehension
List(f) == SubSeq(f, 1, Len(f))

\* the indices at which the comprehension of line 101 raises
Failed(ms) == {i \in 1..Len(ms) : Raised(ms[i])}

Sampled(ts, ms) ==
    /\ temps' = ts
    /\ mu' = IF Failed(ms) = {} THEN ms ELSE Unset
    /\ pc' = IF Failed(ms) = {} THEN "sampled" ELSE "idle"
    /\ page' = IF Failed(ms) = {} THEN page
               ELSE page \o <<[kind |-> "exception",
                               type |-> ms[CHOOSE i \in Failed(ms) :
                                             \A j \in Failed(ms) : i <= j].k]>>

Sample(ts) ==
    Sampled(ts, List([i \in 1..Len(ts) |-> sutherland_viscosity(ts[i], ref[1], ref[2], ref[3])]))

\* lines 100 to 101 with the arguments of np.linspace exchanged
SampleCurveReversed ==
    /\ pc = "written"
    /\ Sample(List(linspace(T, base_temp, NumPoints)))
    /\ UNCHANGED <<unit_system, temp_unit, temp_input, triples, T, base_temp, viscosity,
                   unit_label, ref, convVars, viscVars>>

\* lines 100 to 101
SampleCurve ==
    /\ pc = "written"
    /\ Sample(List(linspace(base_temp, T, NumPoints)))
    /\ UNCHANGED <<unit_system, temp_unit, temp_input, triples, T, base_temp, viscosity,
                   unit_label, ref, convVars, viscVars>>

\* lines 104 to 119: the chart and the rest of the page
PlotCurve ==
    /\ pc = "sampled"
    /\ page' = page \o <<[kind |-> "pyplot", x |-> temps, y |-> mu, xlabel |-> unit_label]>>
                    \o Footer
    /\ pc' = "idle"
    /\ UNCHANGED <<unit_system, temp_unit, temp_input, triples, T, base_temp, viscosity,
                   unit_label, ref, temps, mu, convVars, viscVars>>

\* the first run of the script: every widget at its default
AppInit ==
    /\ unit_system = "SI" /\ temp_unit = DefaultUnit("SI") /\ temp_input = DefaultValue
    /\ triples = Triples
    /\ pc = "idle"
    /\ T = Unset /\ base_temp = Unset /\ viscosity = Unset
    /\ unit_label = Unset /\ ref = Unset /\ temps = Unset /\ mu = Unset
    /\ page = Header \o Footer

NoCalls ==
    /\ value = Unset /\ unit = Unset /\ kelvin = Unset /\ rankine = Unset
    /\ consts = Unset /\ temp = Unset /\ visc = Unset

Init == AppInit /\ NoCalls

Next == \/ \E system \in UnitSystems : SelectUnitSystem(system)
        \/ \E u \in Units : SelectTempUnit(u)
        \/ \E v \in InputValues : EnterTemperature(v)
        \/ Calculate
        \/ WriteResults
        \/ SampleCurve
        \/ PlotCurve

Spec == Init /\ [][Next]_vars

(***************************************************************************)
(* Calls of the two converters with a value and a unit symbol, the four    *)
(* units and some symbols that are none of them.                           *)
(***************************************************************************)
\* the values converted: zero, the sea-level reference in three units, the
\* freezing point in Fahrenheit, the two absolute zeros, -40, 100, 1.7e308
\* and a tenth
NumConvValues == 10
ConvValueList == <<Dec(0, 0), Dec(150, 1), Dec(320, 1), Dec(51867, 2), Dec(28815, 2),
                   Dec(-27315, 2), Dec(-45967, 2), Dec(-400, 1), Dec(1000, 1),
                   Fin(0, <<15222, 24814, 2884, 242>>, 971, "float"),
                   Dec(1, 1)>>
ConvValues == {ConvValueList[i] : i \in 1..Min(NumConvValues, Len(ConvValueList))}
ConvUnits == Units \cup {"X", "c", "Kelvin", ""}

\* kelvin = to_kelvin(value, unit)
CallToKelvin ==
    /\ kelvin = Unset
    /\ kelvin' = to_kelvin(value, unit)
    /\ UNCHANGED <<appVars, viscVars, value, unit, rankine>>

\* rankine = to_rankine(value, unit)
CallToRankine ==
    /\ rankine = Unset
    /\ rankine' = to_rankine(value, unit)
    /\ UNCHANGED <<appVars, viscVars, value, unit, kelvin>>

InitConv ==
    /\ AppInit
    /\ value \in ConvValues /\ unit \in ConvUnits
    /\ kelvin = Unset /\ rankine = Unset
    /\ consts = Unset /\ temp = Unset /\ visc = Unset

NextConv == CallToKelvin \/ CallToRankine

SpecConv == InitConv /\ [][NextConv]_vars

(***************************************************************************)
(* Calls of sutherland_viscosity at two temperatures with one constants    *)
(* triple: the program's two triples and some others.                      *)
(***************************************************************************)
\* other triples (t_ref, s, v_ref): one whose product v_ref * (t_ref + s)
\* rounds, a zero reference temperature, air referred to 273.15 K, one with
\* t_ref + s = 0 and one more
NumOtherTriples == 4
OtherTriples == << <<Dec(10, 1), Dec(20, 1), Dec(1, 1)>>,
                   <<Dec(0, 0), S_SI, V_REF_SI>>,
                   <<Dec(27315, 2), Dec(1104, 1), V_REF_SI>>,
                   <<T_REF_SI, Dec(-3230, 1), V_REF_SI>>,
                   <<Dec(3000, 1), Dec(1200, 1), Dec(18, 6)>> >>
ViscTriples == {Triples.SI, Triples.USC} \cup
               {OtherTriples[i] : i \in 1..Min(NumOtherTriples, Len(OtherTriples))}

\* the temperatures: 400 and the next float above it, 288.15 and the float
\* 288.15 * (1 + 2^-40), 518.67, 1e-100, 1e100, 1 and 10000
NumViscTemps == 8
ViscTempList == <<Dec(4000, 1),
                  Fin(0, <<1, 0, 0, 200>>, -44, "float"),
                  Dec(28815, 2),
                  Fin(0, <<30824, 19660, 2457, 144>>, -44, "float"),
                  Dec(51867, 2),
                  Fin(0, <<1328, 18716, 31931, 223>>, -385, "float"),
                  Fin(0, <<17277, 19241, 9908, 146>>, 280, "float"),
                  Dec(10, 1),
                  Dec(100000, 1)>>
\* with the reference temperature of the triple c
ViscTemps(c) == {ViscTempList[i] : i \in 1..Min(NumViscTemps, Len(ViscTempList))} \cup {c[1]}

\* visc[i] = sutherland_viscosity(temp[i], t_ref, s, v_ref)
CallViscosity(i) ==
    /\ visc[i] = Unset
    /\ visc' = [visc EXCEPT ![i] = sutherland_viscosity(temp[i], consts[1], consts[2], consts[3])]
    /\ UNCHANGED <<appVars, convVars, consts, temp>>

InitVisc ==
    /\ AppInit
    /\ value = Unset /\ unit = Unset /\ kelvin = Unset /\ rankine = Unset
    /\ consts \in ViscTriples
    /\ temp \in ViscTemps(consts) \X ViscTemps(consts)
    /\ visc = <<Unset, Unset>>

NextVisc == \E i \in 1..2 : CallViscosity(i)

SpecVisc == InitVisc /\ [][NextVisc]_vars

(***************************************************************************)
(* Properties of the converters, under SpecConv                            *)
(***************************************************************************)
Abs(x) == [x EXCEPT !.s = 0]

\* 2^k as a float
TwoTo(k) == Fin(0, <<0, 0, 0, 128>>, k - 52, "float")

Returned(x) == x # Unset /\ ~Raised(x)

\* C1: for every value and every unit of C, F, K and R each converter returns
\* exactly the tabulated result, the table's expression evaluated from left to
\* right in floats: to_kelvin gives value + 273.15, (value - 32) * 5/9 + 273.15,
\* value and value * 5/9; to_rankine gives value * 9/5 + 491.67, value + 459.67,
\* value * 9/5 and value; so 0 C is 273.15 K, 32 F is 273.15 K, 15 C is
\* 288.15 K and 0 F is 459.67 R
ConverterTable ==
    /\ (kelvin # Unset /\ unit \in Units) =>
          /\ Returned(kelvin)
          /\ unit = "C" => kelvin = Add(value, Dec(27315, 2))
          /\ unit = "F" => kelvin = Add(Div(Mul(Sub(value, Dec(320, 1)), Dec(50, 1)), Dec(90, 1)),
                                        Dec(27315, 2))
          /\ unit = "K" => kelvin = value
          /\ unit = "R" => kelvin = Div(Mul(value, Dec(50, 1)), Dec(90, 1))
          /\ (unit = "C" /\ value = Dec(0, 0)) => kelvin = Dec(27315, 2)
          /\ (unit = "F" /\ value = Dec(320, 1)) => kelvin = Dec(27315, 2)
          /\ (unit = "C" /\ value = Dec(150, 1)) => kelvin = Dec(28815, 2)
    /\ (rankine # Unset /\ unit \in Units) =>
          /\ Returned(rankine)
          /\ unit = "C" => rankine = Add(Div(Mul(value, Dec(90, 1)), Dec(50, 1)), Dec(49167, 2))
          /\ unit = "F" => rankine = Add(value, Dec(45967, 2))
          /\ unit = "K" => rankine = Div(Mul(value, Dec(90, 1)), Dec(50, 1))
          /\ unit = "R" => rankine = value
          /\ (unit = "F" /\ value = Dec(0, 0)) => rankine = Dec(45967, 2)
          /\ (unit = "C" /\ value = Dec(0, 0)) => rankine = Dec(49167, 2)

\* 32 F converted both ways
ConvertedFreezingPoint ==
    /\ unit = "F" /\ value = Dec(320, 1)
    /\ kelvin = Dec(27315, 2) /\ rankine = Dec(49167, 2)

\* C2: for every value and every unit symbol that is none of C, F, K and R,
\* both converters raise ValueError and return no number
InvalidUnitRaises ==
    /\ (kelvin # Unset /\ unit \notin Units) => kelvin = Raise("ValueError")
    /\ (rankine # Unset /\ unit \notin Units) => rankine = Raise("ValueError")

\* both converters called with the symbol X
InvalidUnitRaised ==
    /\ unit = "X" /\ kelvin # Unset /\ rankine # Unset
    /\ Raised(kelvin) /\ Raised(rankine)
    /\ ~IsNumber(kelvin) /\ ~IsNumber(rankine)

\* C10 as stated: for every value and every unit, to_rankine(x, u) equals
\* to_kelvin(x, u) * 9/5
ConvertersAgree ==
    (unit \in Units /\ Returned(kelvin) /\ Returned(rankine)) =>
        NumEq(rankine, Div(Mul(kelvin, PyInt(9)), PyInt(5)))

\* C10: for every value x below 2^1000 in magnitude, to_rankine(x, 'K') equals
\* to_kelvin(x, 'K') * 9/5, and for the units C, F and R the two differ by at
\* most 2^-50 * (|x| * 9/5 + 491.67), the roundings of the float operations
ConvertersAgreeRounded ==
    (unit \in Units /\ Returned(kelvin) /\ Returned(rankine)
       /\ NumLt(Abs(value), TwoTo(1000))) =>
        /\ IsFin(kelvin) /\ IsFin(rankine)
        /\ unit = "K" => NumEq(rankine, Div(Mul(kelvin, PyInt(9)), PyInt(5)))
        /\ NumLe(Abs(Sub(rankine, Div(Mul(kelvin, PyInt(9)), PyInt(5)))),
                 Mul(TwoTo(-50), Add(Div(Mul(Abs(value), PyInt(9)), PyInt(5)), Dec(49167, 2))))

\* 0 C converted both ways: 491.67 R, and 273.15 K whose nine fifths round to
\* 491.66999999999996
ConvertersDifferAtZeroCelsius ==
    /\ unit = "C" /\ value = Dec(0, 0)
    /\ Returned(kelvin) /\ Returned(rankine)
    /\ rankine = Dec(49167, 2)
    /\ NumLt(Div(Mul(kelvin, PyInt(9)), PyInt(5)), rankine)

(***************************************************************************)
(* Properties of the formula, under SpecVisc                               *)
(***************************************************************************)
ProgramTriples == {Triples.SI, Triples.USC}

\* no overflow and no underflow at x
Moderate(x) == IsFin(x) /\ NumLe(TwoTo(-1000), Abs(x)) /\ NumLe(Abs(x), TwoTo(1000))

\* C4 as stated: for every triple with t_ref + s # 0 the viscosity at t_ref
\* equals v_ref exactly
ReferencePointExact ==
    \A i \in 1..2 :
        (visc[i] # Unset /\ temp[i] = consts[1] /\ ~IsZero(Add(consts[1], consts[2]))) =>
            visc[i] = consts[3]

\* C4: for the program's two triples the viscosity at t_ref equals v_ref
\* exactly, so 518.67 R, which to_rankine returns unchanged, gives exactly
\* 3.737e-7 with the USC triple; for every triple with t_ref # 0 and
\* t_ref + s # 0 in which v_ref, t_ref + s and their product neither overflow
\* nor underflow, it equals v_ref up to the roundings of the product and of
\* the quotient: they differ by at most 2^-51 * |v_ref|
ReferencePoint ==
    \A i \in 1..2 :
        (visc[i] # Unset /\ temp[i] = consts[1]) =>
            /\ consts \in ProgramTriples => visc[i] = consts[3]
            /\ (consts = <<T_REF_USC, S_USC, V_REF_USC>>
                  /\ temp[i] = to_rankine(Dec(51867, 2), "R")) =>
                   temp[i] = Dec(51867, 2) /\ visc[i] = Dec(3737, 10)
            /\ (~IsZero(consts[1]) /\ ~IsZero(Add(consts[1], consts[2]))
                  /\ Moderate(consts[3]) /\ Moderate(Add(consts[1], consts[2]))
                  /\ Moderate(Mul(consts[3], Add(consts[1], consts[2])))) =>
                   /\ IsFin(visc[i])
                   /\ NumLe(Abs(Sub(visc[i], consts[3])), Mul(TwoTo(-51), Abs(consts[3])))

\* the USC triple at 518.67 R
ReferencePointUSC ==
    /\ consts = <<T_REF_USC, S_USC, V_REF_USC>>
    /\ temp[1] = Dec(51867, 2) /\ visc[1] = Dec(3737, 10)

\* C9 as stated: for the program's two triples and every 0 < t1 < t2 the
\* viscosity at t1 is below the viscosity at t2
StrictlyIncreasing ==
    (consts \in ProgramTriples /\ visc[1] # Unset /\ visc[2] # Unset
       /\ NumLt(Dec(0, 0), temp[1]) /\ NumLt(temp[1], temp[2])) =>
        NumLt(visc[1], visc[2])

\* C9: for the program's two triples and every pair of temperatures
\* 1e-100 <= t1 < t2 <= 1e100 with t2 at least t1 * (1 + 2^-40), the viscosity
\* at t1 is below the viscosity at t2
IncreasingApart ==
    (consts \in ProgramTriples /\ visc[1] # Unset /\ visc[2] # Unset
       /\ NumLe(Fin(0, <<1328, 18716, 31931, 223>>, -385, "float"), temp[1])
       /\ NumLe(temp[2], Fin(0, <<17277, 19241, 9908, 146>>, 280, "float"))
       /\ NumLe(Mul(temp[1], Add(PyInt(1), TwoTo(-40))), temp[2])) =>
        /\ IsFin(visc[1]) /\ IsFin(visc[2])
        /\ NumLt(visc[1], visc[2])

\* the SI triple at 288.15 K and at 288.15 * (1 + 2^-40) K
IncreasedApart ==
    /\ consts = <<T_REF_SI, S_SI, V_REF_SI>>
    /\ temp[1] = Dec(28815, 2)
    /\ temp[2] = Mul(temp[1], Add(PyInt(1), TwoTo(-40)))
    /\ Returned(visc[1]) /\ Returned(visc[2])
    /\ NumLt(visc[1], visc[2])

(***************************************************************************)
(* Properties of the application, under Spec                               *)
(***************************************************************************)
Shown(kind) == \E i \in 1..Len(page) : page[i].kind = kind

\* C3: with SI, C and 15.0 the converted temperature is 288.15 K and the
\* viscosity is 1.7894e-5 to within one percent
SeaLevelViscositySI ==
    (pc = "computed" /\ unit_system = "SI" /\ temp_unit = "C" /\ temp_input = Dec(150, 1)) =>
        /\ T = Dec(28815, 2)
        /\ IsFin(viscosity)
        /\ NumLe(Abs(Sub(viscosity, Dec(17894, 9))), Dec(17894, 11))

\* a <= x <= b or b <= x <= a
Between(x, a, b) == (NumLe(a, x) /\ NumLe(x, b)) \/ (NumLe(b, x) /\ NumLe(x, a))

\* C5: in every unit system and for every input unit, the converted
\* temperature is the one to_kelvin returns under SI and to_rankine under USC,
\* as is the reference of 15 C, the viscosity is the formula's value at that
\* temperature with the triple of the system, every sampled temperature lies
\* between the converted reference and the converted temperature (when that
\* one is finite) and its viscosity is the formula's value with the same triple
AbsoluteScale ==
    /\ T # Unset =>
          T = IF unit_system = "SI" THEN to_kelvin(temp_input, temp_unit)
              ELSE to_rankine(temp_input, temp_unit)
    /\ base_temp # Unset =>
          base_temp = IF unit_system = "SI" THEN to_kelvin(Dec(150, 1), "C")
                      ELSE to_rankine(Dec(150, 1), "C")
    /\ viscosity # Unset =>
          ref = IF unit_system = "SI" THEN <<T_REF_SI, S_SI, V_REF_SI>>
                ELSE <<T_REF_USC, S_USC, V_REF_USC>>
    /\ viscosity # Unset => unit_label = IF unit_system = "SI" THEN "K" ELSE "R"
    /\ viscosity # Unset =>
          viscosity = IF unit_system = "SI" THEN sutherland_viscosity(T, T_REF_SI, S_SI, V_REF_SI)
                      ELSE sutherland_viscosity(T, T_REF_USC, S_USC, V_REF_USC)
    /\ pc = "sampled" =>
          \A i \in 1..Len(temps) :
              /\ IsFin(T) => Between(temps[i], base_temp, T)
              /\ mu[i] = IF unit_system = "SI"
                         THEN sutherland_viscosity(temps[i], T_REF_SI, S_SI, V_REF_SI)
                         ELSE sutherland_viscosity(temps[i], T_REF_USC, S_USC, V_REF_USC)

\* a curve sampled under USC from a temperature entered in Celsius
SampledInRankine ==
    /\ pc = "sampled" /\ unit_system = "USC" /\ temp_unit = "C" /\ temp_input = Dec(320, 1)
    /\ T = to_rankine(temp_input, "C") /\ ref = <<T_REF_USC, S_USC, V_REF_USC>>
    /\ Len(mu) = Len(temps) /\ IsFin(mu[50])

\* C6 as stated: no output is shown before every computation step, the curve
\* sampling included, has succeeded
NothingShownBeforeSampled ==
    (Shown("write") \/ Shown("pyplot")) => (pc = "sampled" \/ Shown("pyplot"))

\* the elements of the page of the given kind
Elements(kind) == {i \in 1..Len(page) : page[i].kind = kind}

\* C6: when a conversion or the single-point viscosity fails, the run ends
\* and none of the outputs is shown; the converted temperature and the
\* viscosity are shown once these steps have succeeded (before the curve is
\* sampled) and the chart once the curve has been sampled, with its data
NoPartialResult ==
    /\ Shown("exception") =>
          /\ ~Shown("write") /\ ~Shown("pyplot")
          /\ pc = "idle" /\ viscosity = Unset /\ temps = Unset /\ mu = Unset
    /\ Shown("write") =>
          /\ pc \in {"written", "sampled", "idle"}
          /\ Returned(T) /\ Returned(base_temp) /\ Returned(viscosity)
          /\ Cardinality(Elements("write")) = 2
    /\ pc \in {"computed", "written"} => ~Shown("pyplot") /\ temps = Unset /\ mu = Unset
    /\ Shown("pyplot") =>
          /\ Shown("write") /\ pc = "idle"
          /\ \A i \in Elements("pyplot") :
                 /\ page[i].x = temps /\ page[i].y = mu
                 /\ Len(temps) = Len(mu)
                 /\ \A j \in Elements("write") : j < i

\* the run that divides by zero: SI, K and -110.0
FailedBeforeOutput ==
    /\ unit_system = "SI" /\ temp_unit = "K" /\ temp_input = Dec(-1100, 1)
    /\ Shown("exception") /\ ~Shown("write") /\ ~Shown("pyplot")
    /\ T = temp_input /\ viscosity = Unset

\* consecutive temperatures of the curve never rise
NonIncreasing == \A i \in 1..(Len(temps) - 1) : NumLe(temps[i + 1], temps[i])

\* consecutive temperatures of the curve fall
Decreasing == \A i \in 1..(Len(temps) - 1) : NumLt(temps[i + 1], temps[i])

\* every temperature of the curve is x
AllAt(x) == \A i \in 1..Len(temps) : NumEq(temps[i], x)

\* C7 as stated: the curve has 100 points, the first at the converted
\* reference and the last at T; they fall strictly when T is below the
\* reference and all coincide when T equals it
CurveEndsAndOrder ==
    pc = "sampled" =>
        /\ Len(temps) = 100
        /\ NumEq(temps[1], base_temp)
        /\ NumEq(temps[100], T)
        /\ NumLt(T, base_temp) => Decreasing
        /\ NumEq(T, base_temp) => AllAt(base_temp)

\* C7: the curve has 100 points; the converted reference is the float 288.15
\* under SI and the float 518.6700000000001 under USC; when T is finite the
\* first point is exactly the converted reference and the last exactly T;
\* when T is below the reference the temperatures never rise, and they fall
\* strictly when T is at least 1e-9 below it (SI, F, 32.0 runs from 288.15 K
\* down to 273.15 K); when T equals the reference all 100 points coincide
CurveEndsAndOrderRounded ==
    pc = "sampled" =>
        /\ Len(temps) = 100
        /\ unit_system = "SI" => base_temp = Dec(28815, 2)
        /\ unit_system = "USC" =>
               base_temp = Fin(0, <<17040, 20971, 21872, 129>>, -43, "float")
        /\ IsFin(T) =>
               /\ NumEq(temps[1], base_temp)
               /\ NumEq(temps[100], T)
               /\ NumLt(T, base_temp) => NonIncreasing
               /\ NumLe(Dec(1, 9), Sub(base_temp, T)) => Decreasing
               /\ NumEq(T, base_temp) => AllAt(base_temp)
        /\ (unit_system = "SI" /\ temp_unit = "F" /\ temp_input = Dec(320, 1)) =>
               /\ T = Dec(27315, 2)
               /\ NumEq(temps[1], Dec(28815, 2)) /\ NumEq(temps[100], Dec(27315, 2))
               /\ Decreasing

\* the curve of SI, F and 32.0
CurveDownToFreezing ==
    /\ pc = "sampled" /\ unit_system = "SI" /\ temp_unit = "F" /\ temp_input = Dec(320, 1)
    /\ NumEq(temps[1], Dec(28815, 2)) /\ NumEq(temps[100], Dec(27315, 2))
    /\ NumLt(temps[100], temps[99]) /\ NumLt(temps[2], temps[1])

\* what a run with the button pressed shows for the unit system, the
\* converted temperature t, its viscosity v and the curve <<ts, ms>>
ResultPage(system, t, v, ts, ms) ==
    Header
    \o <<[kind |-> "write", what |-> "Converted Temperature",
          number |-> Format2f(t), unit |-> IF system = "SI" THEN "K" ELSE "R"],
         [kind |-> "write",
          what |-> IF system = "SI" THEN "Dynamic Viscosity (SI)" ELSE "Dynamic Viscosity (USC)",
          number |-> Format6e(v),
          unit |-> IF system = "SI" THEN "kg/(m s)" ELSE "slug/(ft s)"]>>
    \o <<[kind |-> "pyplot", x |-> ts, y |-> ms, xlabel |-> IF system = "SI" THEN "K" ELSE "R"]>>
    \o Footer

CurvePage(system, t, v, ts, c) ==
    ResultPage(system, t, v, ts,
               List([i \in 1..Len(ts) |-> sutherland_viscosity(ts[i], c[1], c[2], c[3])]))

ViscosityPage(system, t, b, c, v) ==
    IF Raised(v) THEN Header \o <<[kind |-> "exception", type |-> v.k]>>
    ELSE CurvePage(system, t, v, List(linspace(b, t, NumPoints)), c)

ConvertedPage(system, t, b, c) ==
    ViscosityPage(system, t, b, c, sutherland_viscosity(t, c[1], c[2], c[3]))

\* the outputs as a function of the three inputs
Outputs(system, u, v) ==
    IF system = "SI"
    THEN ConvertedPage(system, to_kelvin(v, u), to_kelvin(Dec(150, 1), "C"),
                       <<T_REF_SI, S_SI, V_REF_SI>>)
    ELSE ConvertedPage(system, to_rankine(v, u), to_rankine(Dec(150, 1), "C"),
                       <<T_REF_USC, S_USC, V_REF_USC>>)

\* C8: whatever runs came before, the page a finished run leaves is a function
\* of the three current inputs alone, and the constant tables are those of
\* lines 21 to 28
HistoryIndependent ==
    /\ triples = [SI |-> <<T_REF_SI, S_SI, V_REF_SI>>, USC |-> <<T_REF_USC, S_USC, V_REF_USC>>]
    /\ (pc = "idle" /\ page # Header \o Footer) =>
           page = Outputs(unit_system, temp_unit, temp_input)

\* a finished calculation under USC, reached through runs under SI
CalculatedAfterOtherRuns ==
    /\ pc = "idle" /\ Shown("pyplot")
    /\ unit_system = "USC" /\ temp_unit = "C" /\ temp_input = Dec(150, 1)
    /\ page = Outputs("USC", "C", Dec(150, 1))

====
